---- MODULE Spec2Model ----
(***************************************************************************)
(* Record collection: the repository layer (api/crud.py) over the SQLite   *)
(* store declared in database/models.py and database/database.py.          *)
(*                                                                         *)
(* A handler is a sequence of statements against the store.  Steps gives   *)
(* the effect of the next statement of a handler in a "world" (the         *)
(* committed store, the request's session, the clock); Run composes the    *)
(* steps of one handler up to its return.  Spec runs one request at a      *)
(* time, SpecConc interleaves the statements of two requests.              *)
(***************************************************************************)
EXTENDS Integers, Sequences, FiniteSets, TLC

VARIABLES db, sess, clock, last

vars == <<db, sess, clock, last>>

\* ---------------------------------------------------------------- bounds
MaxRecords == 2
MaxTracks == 2
MaxGenres == 2
MaxDay == 2
MaxStored == 2
MaxQuery == 2

\* ------------------------------------------------------------ value sets
NULL == "NULL"
UNSET == "UNSET"

Sessions == {"s1", "s2"}
Names == {"Rock", "Jazz"}

\* the track listing requests draw from: the first n tracks of an album
Album ==
    << [title |-> "x", position |-> "A1", duration |-> NULL],
       [title |-> "y", position |-> NULL, duration |-> "3:45"] >>

SeqsUpTo(S, n) == UNION { [1..k -> S] : k \in 0..n }

Range(f) == { f[x] : x \in DOMAIN f }

SetMax(S) == CHOOSE m \in S : \A x \in S : x <= m

\* SQLite rowid assignment for INTEGER PRIMARY KEY without AUTOINCREMENT
NextId(S) == IF S = {} THEN 1 ELSE SetMax(S) + 1

RECURSIVE SortedSeq(_)
SortedSeq(S) ==
    IF S = {} THEN <<>>
    ELSE LET m == CHOOSE x \in S : \A y \in S : x <= y
         IN <<m>> \o SortedSeq(S \ {m})

\* ------------------------------------------------------------- the store
EmptyFn == [x \in {} |-> 0]

EmptyDb ==
    [records |-> EmptyFn, genres |-> EmptyFn, edges |-> {}, tracks |-> EmptyFn]

RecordIds(d) == DOMAIN d.records

GenreIds(d) == DOMAIN d.genres

\* db.query(Genre).filter(Genre.name == name).first(); 0 stands for None
GenreByName(d, name) ==
    IF \E g \in GenreIds(d) : d.genres[g] = name
    THEN CHOOSE g \in GenreIds(d) :
            /\ d.genres[g] = name
            /\ \A h \in GenreIds(d) : d.genres[h] = name => g <= h
    ELSE 0

\* the rows of record.genres, as genre names
GenresOf(d, rid) == { d.genres[e[2]] : e \in { x \in d.edges : x[1] = rid /\ x[2] \in GenreIds(d) } }

GenreIdsOf(d, rid) == { e[2] : e \in { x \in d.edges : x[1] = rid } }

TrackIdsOf(d, rid) == { t \in DOMAIN d.tracks : d.tracks[t].record_id = rid }

\* record.tracks: the rows of the record in rowid order, without the key columns
TracksOf(d, rid) ==
    LET ids == SortedSeq(TrackIdsOf(d, rid))
    IN [k \in 1..Len(ids) |->
            [title |-> d.tracks[ids[k]].title,
             position |-> d.tracks[ids[k]].position,
             duration |-> d.tracks[ids[k]].duration]]

\* ---------------------------------------------------- sessions and worlds
NoRow == [title |-> NULL, label |-> NULL, created_at |-> 0, updated_at |-> 0]

NoList == [k |-> "unset", v |-> <<>>]

NoInput == [title |-> UNSET, label |-> UNSET, genres |-> NoList, tracks |-> NoList]

NoRet == [tag |-> "idle", id |-> 0, exc |-> "", at |-> ""]

\* the locals of the create route: the body as it was received, the results
\* of the two lookups, the outcome each provider had, the calls made so far
NoRoute ==
    [orig |-> NoInput, info |-> <<NULL, NULL>>, review |-> NULL,
     out |-> <<>>, calls |-> <<>>]

IdleSession ==
    [pc |-> "idle", kind |-> "", rid |-> 0, inp |-> NoInput, i |-> 1,
     hasTxn |-> FALSE, txn |-> EmptyDb, loaded |-> NoRow,
     gorig |-> {}, gcur |-> <<>>, ltracks |-> {}, ledges |-> {}, ret |-> NoRet,
     route |-> NoRoute, reuse |-> FALSE, dead |-> FALSE]

\* the rows a statement of the session sees: its open transaction, else the
\* committed store (pysqlite begins a transaction only before DML)
View(w) == IF w.s.hasTxn THEN w.s.txn ELSE w.db

Write(w, d) == [w EXCEPT !.s.hasTxn = TRUE, !.s.txn = d]

\* db.commit()
Commit(w) ==
    [w EXCEPT !.db = IF w.s.hasTxn THEN w.s.txn ELSE w.db,
              !.s.hasTxn = FALSE, !.s.txn = EmptyDb]

\* a close that commits what the handler left open
Close_Commit(w) ==
    [w EXCEPT !.db = IF w.s.hasTxn THEN w.s.txn ELSE w.db,
              !.s.hasTxn = FALSE, !.s.txn = EmptyDb]

\* get_db: finally db.close() rolls back whatever the handler left open; a
\* Session the caller made and keeps (reuse) is not closed by api.crud
Close(w) == IF w.s.reuse THEN w ELSE [w EXCEPT !.s.hasTxn = FALSE, !.s.txn = EmptyDb]

Return(w, tag, id) ==
    [Close(w) EXCEPT !.s.pc = "done",
                     !.s.ret = [tag |-> tag, id |-> id, exc |-> "", at |-> ""]]

\* the exceptions of a flush: the Session rolls its transaction back and
\* refuses further statements until rollback() is called
FlushErrors == {"IntegrityError", "StaleDataError", "OperationalError"}

\* what an exception does to a Session that stays in use
Invalidate(w, exc) ==
    IF w.s.reuse /\ exc \in FlushErrors
    THEN [w EXCEPT !.s.hasTxn = FALSE, !.s.txn = EmptyDb, !.s.dead = TRUE]
    ELSE w

\* an exception that leaves the writes of the handler in the store
Raise_NoRollback(w, exc) ==
    [Commit(w) EXCEPT !.s.pc = "done",
                      !.s.ret = [tag |-> "raised", id |-> 0, exc |-> exc, at |-> w.s.pc]]

\* an exception leaves the handler: the session is closed by get_db
Raise(w, exc) ==
    [Close(Invalidate(w, exc)) EXCEPT !.s.pc = "done",
                     !.s.ret = [tag |-> "raised", id |-> 0, exc |-> exc, at |-> w.s.pc]]

\* the first DML of a session needs SQLite's write lock
NeedsLock(w, blocked) == ~w.s.hasTxn /\ blocked

\* ------------------------------------------------------- storage helpers
\* Genre(name=...); db.add; db.flush
InsertGenre(d, name) ==
    [d EXCEPT !.genres = [g \in GenreIds(d) \cup {NextId(GenreIds(d))} |->
                            IF g \in GenreIds(d) THEN d.genres[g] ELSE name]]

\* genres.name declared without unique=True
GenreNameTaken_Off(d, name) == FALSE

\* the unique constraint on genres.name
GenreNameTaken(d, name) == \E g \in GenreIds(d) : d.genres[g] = name

HasDup(q) == \E a, b \in DOMAIN q : a < b /\ q[a] = q[b]

\* The association rows the unit of work writes for record.genres: one
\* DELETE per member of the loaded collection that is gone, one INSERT per
\* list element that was not in the loaded collection.  When the list holds
\* the same Genre twice the unit of work emits either one row for it or
\* two, and two violate the primary key of record_genre.
FlushEdges(edges, rid, gorig, gcur) ==
    LET cur == Range(gcur)
        del == { <<rid, g>> : g \in gorig \ cur }
        add == { <<rid, g>> : g \in cur \ gorig }
        ok  == [err |-> "", edges |-> (edges \ del) \cup add]
        bad(e) == [err |-> e, edges |-> edges]
    IN IF ~(del \subseteq edges) THEN {bad("StaleDataError")}
       ELSE IF add \cap edges # {} THEN {bad("IntegrityError")}
       ELSE IF HasDup(gcur) THEN {ok, bad("IntegrityError")}
       ELSE {ok}

\* Track(record_id=..., title=..., position=..., duration=...); db.add, in order
RECURSIVE InsertTracks(_, _, _)
InsertTracks(d, rid, ts) ==
    IF ts = <<>> THEN d
    ELSE LET id == NextId(DOMAIN d.tracks)
             row == [record_id |-> rid, title |-> ts[1].title,
                     position |-> ts[1].position, duration |-> ts[1].duration]
             d2 == [d EXCEPT !.tracks = [t \in DOMAIN d.tracks \cup {id} |->
                                            IF t = id THEN row ELSE d.tracks[t]]]
         IN InsertTracks(d2, rid, Tail(ts))

\* db.query(Track).filter(Track.record_id == record_id).delete()
DeleteTracksOf(d, rid) ==
    [d EXCEPT !.tracks = [t \in DOMAIN d.tracks \ TrackIdsOf(d, rid) |-> d.tracks[t]]]

\* a delete that leaves the record_genre rows of the record behind
DeleteRecordRows_KeepEdges(d, rid, tids, gids) ==
    [d EXCEPT
        !.tracks = [t \in DOMAIN d.tracks \ tids |-> d.tracks[t]],
        !.records = [r \in RecordIds(d) \ {rid} |-> d.records[r]]]

\* a delete that takes the genres of the record with it
DeleteRecordRows_DropGenres(d, rid, tids, gids) ==
    [d EXCEPT
        !.tracks = [t \in DOMAIN d.tracks \ tids |-> d.tracks[t]],
        !.edges = @ \ { <<rid, g>> : g \in gids },
        !.genres = [g \in GenreIds(d) \ gids |-> d.genres[g]],
        !.records = [r \in RecordIds(d) \ {rid} |-> d.records[r]]]

\* Record.tracks declared without cascade: the tracks of the record stay
DeleteRecordRows_NoCascade(d, rid, tids, gids) ==
    [d EXCEPT
        !.edges = @ \ { <<rid, g>> : g \in gids },
        !.records = [r \in RecordIds(d) \ {rid} |-> d.records[r]]]

\* the DELETE of the row itself left out
DeleteRecordRows_KeepRow(d, rid, tids, gids) ==
    [d EXCEPT
        !.tracks = [t \in DOMAIN d.tracks \ tids |-> d.tracks[t]],
        !.edges = @ \ { <<rid, g>> : g \in gids }]

\* the flush of db.delete(db_record): one DELETE per loaded association row,
\* one per loaded track (cascade), one for the row itself, each by primary key
DeleteRecordRows(d, rid, tids, gids) ==
    [d EXCEPT
        !.tracks = [t \in DOMAIN d.tracks \ tids |-> d.tracks[t]],
        !.edges = @ \ { <<rid, g>> : g \in gids },
        !.records = [r \in RecordIds(d) \ {rid} |-> d.records[r]]]

InsertRecord(d, rid, row) ==
    [d EXCEPT !.records = [r \in RecordIds(d) \cup {rid} |->
                              IF r = rid THEN row ELSE d.records[r]]]

\* ----------------------------------------------- create_record, by statement
\* `if record.genres:` is false for None and for []
CreateNames(inp) == IF inp.genres.k = "list" THEN inp.genres.v ELSE <<>>

\* `if record.tracks:` likewise
CreateTracks(inp) == IF inp.tracks.k = "list" THEN inp.tracks.v ELSE <<>>

\* for genre_name in record.genres: genre = query(...).first(); append if found
CGen(w) ==
    LET names == CreateNames(w.s.inp)
    IN IF w.s.i > Len(names) THEN {[w EXCEPT !.s.pc = "c_rec"]}
       ELSE LET g == GenreByName(View(w), names[w.s.i])
            IN IF g # 0
               THEN {[w EXCEPT !.s.gcur = Append(@, g), !.s.i = @ + 1]}
               ELSE {[w EXCEPT !.s.pc = "c_ins"]}

\* genre = Genre(name=genre_name); db.add(genre); db.flush(); append
CIns(w, blocked) ==
    LET name == CreateNames(w.s.inp)[w.s.i]
        v == View(w)
    IN IF NeedsLock(w, blocked) THEN {Raise(w, "OperationalError")}
       ELSE IF GenreNameTaken(v, name) THEN {Raise(w, "IntegrityError")}
       ELSE {Write([w EXCEPT !.s.gcur = Append(@, NextId(GenreIds(v))),
                             !.s.i = @ + 1, !.s.pc = "c_gen"],
                   InsertGenre(v, name))}

\* the columns Record(...) copies from the request: every field but the lists
ScalarKeys(inp) == DOMAIN inp \ {"genres", "tracks"}

\* db_record = Record(..., genres=db_genres); db.add(db_record); db.flush()
CRec(w, blocked) ==
    LET v == View(w)
        id == NextId(RecordIds(v))
        row == [c \in ScalarKeys(w.s.inp) \cup {"created_at", "updated_at"} |->
                    IF c \in ScalarKeys(w.s.inp) THEN w.s.inp[c] ELSE w.clock.utc]
        v2 == InsertRecord(v, id, row)
    IN IF NeedsLock(w, blocked) THEN {Raise(w, "OperationalError")}
       ELSE { IF o.err # "" THEN Raise(w, o.err)
              ELSE Write([w EXCEPT !.s.rid = id, !.s.pc = "c_commit"],
                         [v2 EXCEPT !.edges = o.edges])
              : o \in FlushEdges(v.edges, id, {}, w.s.gcur) }

\* the Track rows of record.tracks; db.commit()
CCommit(w) ==
    {[Commit(Write(w, InsertTracks(View(w), w.s.rid, CreateTracks(w.s.inp))))
        EXCEPT !.s.pc = "refresh"]}

\* db.refresh(db_record); return db_record
Refresh(w) ==
    IF w.s.rid \in RecordIds(View(w))
    THEN {Return(w, "ok", w.s.rid)}
    ELSE {Raise(w, "InvalidRequestError")}

\* ----------------------------------------------- update_record, by statement
\* `if "tracks" in update_data:` decides the statement after the genres
AfterGenres(inp) == IF inp.tracks.k # "unset" THEN "u_trk" ELSE "u_commit"

\* update_record without `if not db_record: return None`
UGet_NoCheck(w) ==
    {[w EXCEPT !.s.loaded = IF w.s.rid \in RecordIds(View(w))
                            THEN View(w).records[w.s.rid] ELSE NoRow,
               !.s.pc = IF w.s.inp.genres.k # "unset" THEN "u_gen0"
                        ELSE AfterGenres(w.s.inp)]}

\* db_record = get_record(db, record_id); if not db_record: return None
UGet(w) ==
    IF w.s.rid \notin RecordIds(View(w)) THEN {Return(w, "none", 0)}
    ELSE {[w EXCEPT !.s.loaded = View(w).records[w.s.rid],
                    !.s.pc = IF w.s.inp.genres.k # "unset" THEN "u_gen0"
                             ELSE AfterGenres(w.s.inp)]}

\* genres = update_data.pop("genres"); db_record.genres = []; for ... in genres
UGen0(w) ==
    LET w2 == [w EXCEPT !.s.gorig = GenreIdsOf(View(w), w.s.rid),
                        !.s.gcur = <<>>, !.s.i = 1, !.s.pc = "u_gen"]
    IN IF w.s.inp.genres.k = "null" THEN {Raise(w2, "TypeError")} ELSE {w2}

UGen(w) ==
    LET names == w.s.inp.genres.v
    IN IF w.s.i > Len(names) THEN {[w EXCEPT !.s.pc = AfterGenres(w.s.inp)]}
       ELSE LET g == GenreByName(View(w), names[w.s.i])
            IN IF g # 0
               THEN {[w EXCEPT !.s.gcur = Append(@, g), !.s.i = @ + 1]}
               ELSE {[w EXCEPT !.s.pc = "u_ins"]}

\* genre = Genre(name=genre_name); db.add(genre); db.flush(): the flush also
\* writes the pending change of db_record.genres
UIns(w, blocked) ==
    LET name == w.s.inp.genres.v[w.s.i]
        v == View(w)
        v2 == InsertGenre(v, name)
    IN IF NeedsLock(w, blocked) THEN {Raise(w, "OperationalError")}
       ELSE IF GenreNameTaken(v, name) THEN {Raise(w, "IntegrityError")}
       ELSE { IF o.err # "" THEN Raise(w, o.err)
              ELSE Write([w EXCEPT !.s.gorig = Range(w.s.gcur),
                                   !.s.gcur = Append(@, NextId(GenreIds(v))),
                                   !.s.i = @ + 1, !.s.pc = "u_gen"],
                         [v2 EXCEPT !.edges = o.edges])
              : o \in FlushEdges(v.edges, w.s.rid, w.s.gorig, w.s.gcur) }

\* tracks_data = update_data.pop("tracks"); query(Track)...delete();
\* for track_data in tracks_data: Track(title=track_data.title, ...).
\* update_data comes from record_update.dict(), so each element of
\* tracks_data is a dict and track_data.title raises AttributeError.
UTrk(w, blocked) ==
    LET t == w.s.inp.tracks
        w2 == Write(w, DeleteTracksOf(View(w), w.s.rid))
    IN IF NeedsLock(w, blocked) THEN {Raise(w, "OperationalError")}
       ELSE IF t.k = "null" THEN {Raise(w2, "TypeError")}
       ELSE IF t.v # <<>> THEN {Raise(w2, "AttributeError")}
       ELSE {[w2 EXCEPT !.s.pc = "u_commit"]}

\* for key, value in update_data.items(): setattr(db_record, key, value);
\* db_record.updated_at = date.today(): the attribute values at commit
NewRow(loaded, inp, today) ==
    [loaded EXCEPT !.title = IF inp.title = UNSET THEN @ ELSE inp.title,
                   !.label = IF inp.label = UNSET THEN @ ELSE inp.label,
                   !.updated_at = today]

Columns == {"title", "label", "created_at", "updated_at"}

\* the UPDATE of the unit of work sets the columns whose attribute differs
\* from the loaded value; updated_at takes its onupdate default when it is
\* not among them
ApplyUpdate(row, loaded, new, utc) ==
    LET changed == { c \in Columns : new[c] # loaded[c] }
    IN IF changed = {} THEN row
       ELSE [c \in Columns |->
               IF c \in changed THEN new[c]
               ELSE IF c = "updated_at" THEN utc ELSE row[c]]

\* db.commit(): flush the row and the association rows, then commit
UCommit(w, blocked) ==
    LET v == View(w)
        new == NewRow(w.s.loaded, w.s.inp, w.clock.loc)
        rowDml == new # w.s.loaded
        genDml == w.s.inp.genres.k # "unset" /\ Range(w.s.gcur) # w.s.gorig
        gorig == IF w.s.inp.genres.k = "unset" THEN {} ELSE w.s.gorig
        gcur == IF w.s.inp.genres.k = "unset" THEN <<>> ELSE w.s.gcur
    IN IF ~rowDml /\ ~genDml /\ ~HasDup(gcur)
       THEN {[Commit(w) EXCEPT !.s.pc = "refresh"]}
       ELSE IF NeedsLock(w, blocked) THEN {Raise(w, "OperationalError")}
       ELSE IF rowDml /\ w.s.rid \notin RecordIds(v) THEN {Raise(w, "StaleDataError")}
       ELSE IF rowDml /\ new.title = NULL THEN {Raise(w, "IntegrityError")}
       ELSE LET v2 == IF rowDml
                      THEN [v EXCEPT !.records[w.s.rid] =
                               ApplyUpdate(@, w.s.loaded, new, w.clock.utc)]
                      ELSE v
            IN { IF o.err # "" THEN Raise(w, o.err)
                 ELSE [Commit(Write(w, [v2 EXCEPT !.edges = o.edges]))
                          EXCEPT !.s.pc = "refresh"]
                 : o \in FlushEdges(v.edges, w.s.rid, gorig, gcur) }

\* ----------------------------------------------- delete_record, get_record
\* db_record = get_record(db, record_id); if not db_record: return False
DGet(w) ==
    IF w.s.rid \notin RecordIds(View(w)) THEN {Return(w, "false", 0)}
    ELSE {[w EXCEPT !.s.pc = "d_load"]}

\* db.delete(db_record): the delete cascade loads db_record.tracks
DLoad(w) ==
    {[w EXCEPT !.s.ltracks = TrackIdsOf(View(w), w.s.rid), !.s.pc = "d_flush"]}

\* db.commit(), the flush before its first DELETE: the unit of work loads
\* db_record.genres to know the association rows
DFlush(w) ==
    {[w EXCEPT !.s.ledges = { g \in GenreIdsOf(View(w), w.s.rid) : g \in GenreIds(View(w)) },
               !.s.pc = "d_commit"]}

\* db.commit(), the DELETEs and the COMMIT; return True.  An association row
\* that is gone raises StaleDataError, a track or record row that is gone
\* only warns.
DCommit(w, blocked) ==
    LET v == View(w)
    IN IF NeedsLock(w, blocked) THEN {Raise(w, "OperationalError")}
       ELSE IF ~({ <<w.s.rid, g>> : g \in w.s.ledges } \subseteq v.edges)
       THEN {Raise(w, "StaleDataError")}
       ELSE {Return(Commit(Write(w, DeleteRecordRows(v, w.s.rid, w.s.ltracks, w.s.ledges))),
                    "true", 0)}

\* return db.query(Record).filter(Record.id == record_id).first()
GGet(w) ==
    IF w.s.rid \in RecordIds(View(w))
    THEN {Return(w, "ok", w.s.rid)}
    ELSE {Return(w, "none", 0)}

\* ------------------------------------------ services: the two providers
\* what a provider call came to: the credentials are not configured, the
\* request raised, the reply had an error status, the reply was not JSON,
\* or a reply arrived ("ok") with the fields res says
ProviderFailures == {"nocreds", "exception", "status", "decode"}

\* the value a function returns or the exception that leaves it
Value(v) == [tag |-> "value", v |-> v, exc |-> ""]

Raised(exc) == [tag |-> "raised", v |-> NULL, exc |-> exc]

\* the first result of a Discogs search: cover_image and uri may be missing
DiscogsResults == [cover : {UNSET, "", "art"}, uri : {UNSET, "uri"}]

\* no result (None), and a result that has neither field
NoResult == [cover |-> UNSET, uri |-> UNSET]

\* "none": the search found nothing
DiscogsOutcomes ==
    [kind : ProviderFailures \cup {"none"}, res : {NoResult}]
        \cup [kind : {"ok"}, res : DiscogsResults]

\* Last.fm: a reply without album.url, or with it
LastfmOutcomes ==
    [kind : ProviderFailures \cup {"none"}, url : {NULL}] \cup [kind : {"ok"}, url : {"rev"}]

\* search_discogs with raise_for_status() outside its try block
SearchDiscogs_NoCatch(o) ==
    IF o.kind = "nocreds" THEN Value(NoResult)
    ELSE IF o.kind = "status" THEN Raised("HTTPStatusError")
    ELSE IF o.kind = "ok" THEN Value(o.res) ELSE Value(NoResult)

\* search_discogs: None without credentials; every Exception of the request,
\* of raise_for_status() and of response.json() is caught and gives None
SearchDiscogs(o) ==
    IF o.kind = "nocreds" THEN Value(NoResult)
    ELSE IF o.kind \in {"exception", "status", "decode"} THEN Value(NoResult)
    ELSE IF o.kind = "ok" THEN Value(o.res) ELSE Value(NoResult)

\* `if not result`
NoDiscogs(r) == r = NoResult

\* result.get("cover_image"); result["uri"] if "uri" in result
GetAlbumInfo(o) ==
    LET r == SearchDiscogs(o)
    IN IF r.tag = "raised" THEN r
       ELSE IF NoDiscogs(r.v) THEN Value(<<NULL, NULL>>)
       ELSE Value(<<IF r.v.cover = UNSET THEN NULL ELSE r.v.cover,
                    IF r.v.uri = UNSET THEN NULL ELSE r.v.uri>>)

\* get_lastfm_review: the same shape as search_discogs
GetLastfmReview(o) ==
    IF o.kind = "nocreds" THEN Value(NULL)
    ELSE IF o.kind \in {"exception", "status", "decode"} THEN Value(NULL)
    ELSE IF o.kind = "ok" THEN Value(o.url) ELSE Value(NULL)

\* ----------------------------------------- routes.create_record, by await
UrlFields == {"album_art_url", "discogs_url", "review_url"}

\* `not x` for an Optional[str]: None and the empty string
Falsy(x) == x \in {NULL, ""}

\* a session that begins a transaction on entering the route
RCheck_Early(w) ==
    IF \E f \in UrlFields : Falsy(w.s.inp[f])
    THEN {Write([w EXCEPT !.s.pc = "r_info", !.s.route.calls = Append(@, "info")], View(w))}
    ELSE {[w EXCEPT !.s.pc = "c_gen", !.s.route.calls = Append(@, "crud")]}

\* if not record.album_art_url or not record.discogs_url or not record.review_url:
\* get_album_info is called and awaited; otherwise crud.create_record runs
RCheck(w) ==
    IF \E f \in UrlFields : Falsy(w.s.inp[f])
    THEN {[w EXCEPT !.s.pc = "r_info", !.s.route.calls = Append(@, "info")]}
    ELSE {[w EXCEPT !.s.pc = "c_gen", !.s.route.calls = Append(@, "crud")]}

\* get_album_info returns (or raises); get_lastfm_review is called and awaited
RInfo(w) ==
    { LET r == GetAlbumInfo(o)
      IN IF r.tag = "raised"
         THEN Raise([w EXCEPT !.s.route.out = Append(@, o.kind)], r.exc)
         ELSE [w EXCEPT !.s.pc = "r_review", !.s.route.info = r.v,
                        !.s.route.out = Append(@, o.kind),
                        !.s.route.calls = Append(@, "review")]
      : o \in DiscogsOutcomes }

\* `if not record.f and f: record.f = f` for one field
Fill(old, new) == IF Falsy(old) /\ ~Falsy(new) THEN new ELSE old

\* get_lastfm_review returns; the three fields are filled in;
\* crud.create_record runs
RReview(w) ==
    { LET r == GetLastfmReview(o)
      IN IF r.tag = "raised"
         THEN Raise([w EXCEPT !.s.route.out = Append(@, o.kind)], r.exc)
         ELSE [w EXCEPT !.s.pc = "c_gen",
                        !.s.route.review = r.v,
                        !.s.route.out = Append(@, o.kind),
                        !.s.route.calls = Append(@, "crud"),
                        !.s.inp.album_art_url = Fill(@, w.s.route.info[1]),
                        !.s.inp.discogs_url = Fill(@, w.s.route.info[2]),
                        !.s.inp.review_url = Fill(@, r.v)]
      : o \in LastfmOutcomes }

\* the next statement of the handler the session is in
Steps(w, blocked) ==
    CASE w.s.pc = "c_gen" -> CGen(w)
      [] w.s.pc = "c_ins" -> CIns(w, blocked)
      [] w.s.pc = "c_rec" -> CRec(w, blocked)
      [] w.s.pc = "c_commit" -> CCommit(w)
      [] w.s.pc = "refresh" -> Refresh(w)
      [] w.s.pc = "u_get" -> UGet(w)
      [] w.s.pc = "u_gen0" -> UGen0(w)
      [] w.s.pc = "u_gen" -> UGen(w)
      [] w.s.pc = "u_ins" -> UIns(w, blocked)
      [] w.s.pc = "u_trk" -> UTrk(w, blocked)
      [] w.s.pc = "u_commit" -> UCommit(w, blocked)
      [] w.s.pc = "d_get" -> DGet(w)
      [] w.s.pc = "d_load" -> DLoad(w)
      [] w.s.pc = "d_flush" -> DFlush(w)
      [] w.s.pc = "d_commit" -> DCommit(w, blocked)
      [] w.s.pc = "g_get" -> GGet(w)
      [] w.s.pc = "r_check" -> RCheck(w)
      [] w.s.pc = "r_info" -> RInfo(w)
      [] w.s.pc = "r_review" -> RReview(w)
      [] OTHER -> {}

FirstPc(kind) ==
    CASE kind = "create" -> "c_gen"
      [] kind = "update" -> "u_get"
      [] kind = "delete" -> "d_get"
      [] kind = "post" -> "r_check"
      [] OTHER -> "g_get"

\* a request enters its handler with a session of its own (get_db)
Enter(kind, rid, inp) ==
    [IdleSession EXCEPT !.pc = FirstPc(kind), !.kind = kind, !.rid = rid, !.inp = inp,
                        !.route.orig = inp]

\* a handler run from entry to return with no other request in between
RECURSIVE Run(_)
Run(w) == IF w.s.pc = "done" THEN {w} ELSE UNION { Run(x) : x \in Steps(w, FALSE) }

Call(d, c, kind, rid, inp) == Run([db |-> d, s |-> Enter(kind, rid, inp), clock |-> c])

\* ------------------------------------------------------------ the inputs
ListIn(S, n) == { [k |-> "list", v |-> q] : q \in SeqsUpTo(S, n) }

AlbumTrack(j) == Album[((j - 1) % Len(Album)) + 1]

\* a request carries no tracks or the first n tracks of the album
TrackListIn(n) == { [k |-> "list", v |-> [j \in 1..m |-> AlbumTrack(j)]] : m \in {0, n} }

NullList == [k |-> "null", v |-> <<>>]

\* schemas.RecordCreate
CreateInputs ==
    [title : {"t1"}, label : {NULL, "l1"},
     genres : ListIn(Names, MaxGenres), tracks : TrackListIn(MaxTracks)]

\* the keys a RecordUpdate carries (exclude_unset keeps exactly these)
KeysOf(inp) ==
    {k \in {"title", "label"} : inp[k] # UNSET}
        \cup {k \in {"genres", "tracks"} : inp[k].k # "unset"}

\* schemas.RecordUpdate: every key may be absent, null or a value; the
\* requests of the model carry at most two keys
UpdateInputs ==
    { inp \in [title : {UNSET, NULL}, label : {UNSET, NULL, "l1"},
               genres : {NoList, NullList} \cup ListIn(Names, MaxGenres),
               tracks : {NoList, NullList} \cup TrackListIn(MaxTracks)] :
        Cardinality(KeysOf(inp)) <= 2 }

\* the ids a request may name: those in use and the next one
AnyId == 1..(MaxRecords + 1)

\* ------------------------------------------- one request at a time (Spec)
NoRequest == [kind |-> "", rid |-> 0, inp |-> NoInput, ret |-> NoRet, route |-> NoRoute]

Init ==
    /\ db = EmptyDb
    /\ sess = [s \in Sessions |-> IdleSession]
    /\ clock = [utc |-> 0, loc |-> 0]
    /\ last = NoRequest

Served(o) ==
    [kind |-> o.s.kind, rid |-> o.s.rid, inp |-> o.s.inp, ret |-> o.s.ret,
     route |-> o.s.route]

Finish(o) ==
    /\ db' = o.db
    /\ last' = Served(o)

DoCreate ==
    /\ last = NoRequest
    /\ Cardinality(RecordIds(db)) < MaxRecords
    /\ \E inp \in CreateInputs : \E o \in Call(db, clock, "create", 0, inp) : Finish(o)
    /\ UNCHANGED <<sess, clock>>

DoUpdate ==
    /\ last = NoRequest
    /\ \E id \in AnyId, inp \in UpdateInputs :
          \E o \in Call(db, clock, "update", id, inp) : Finish(o)
    /\ UNCHANGED <<sess, clock>>

DoDelete ==
    /\ last = NoRequest
    /\ \E id \in AnyId : \E o \in Call(db, clock, "delete", id, NoInput) : Finish(o)
    /\ UNCHANGED <<sess, clock>>

DoGet ==
    /\ last = NoRequest
    /\ \E id \in AnyId : \E o \in Call(db, clock, "get", id, NoInput) : Finish(o)
    /\ UNCHANGED <<sess, clock>>

\* the response leaves; the next request may come
Respond ==
    /\ last # NoRequest
    /\ last' = NoRequest
    /\ UNCHANGED <<db, sess, clock>>

Next == DoCreate \/ DoUpdate \/ DoDelete \/ DoGet \/ Respond

Spec == Init /\ [][Next]_vars

\* ------------------------------- two requests, statement by statement
\* Two sessions over the same database file: two server processes, or any
\* two callers of api.crud that each hold their own SessionLocal().  (Inside
\* one server process a route runs its crud call without suspending.)
\* the requests of SpecConc: creates and updates that name one genre
ConcNames == {"Rock"}

ConcCreateInputs ==
    [title : {"t1"}, label : {NULL},
     genres : ListIn(ConcNames, MaxGenres), tracks : TrackListIn(0)]

ConcUpdateInputs ==
    [title : {UNSET}, label : {UNSET},
     genres : ListIn(ConcNames, MaxGenres), tracks : {NoList}]

\* another session holds the write lock of the database file
Blocked(s) == \E t \in Sessions \ {s} : sess[t].hasTxn

Begin(s) ==
    /\ last = NoRequest
    /\ sess[s].pc = "idle"
    /\ \/ /\ Cardinality(RecordIds(db)) < MaxRecords
          /\ \E inp \in ConcCreateInputs :
                sess' = [sess EXCEPT ![s] = Enter("create", 0, inp)]
       \/ \E id \in AnyId, inp \in ConcUpdateInputs :
                sess' = [sess EXCEPT ![s] = Enter("update", id, inp)]
    /\ UNCHANGED <<db, clock, last>>

Step(s) ==
    /\ last = NoRequest
    /\ sess[s].pc # "idle"
    /\ \E o \in Steps([db |-> db, s |-> sess[s], clock |-> clock], Blocked(s)) :
          /\ db' = o.db
          /\ IF o.s.pc = "done"
             THEN /\ sess' = [sess EXCEPT ![s] = IdleSession]
                  /\ last' = Served(o)
             ELSE /\ sess' = [sess EXCEPT ![s] = o.s]
                  /\ UNCHANGED last
    /\ UNCHANGED clock

NextConc == (\E s \in Sessions : Begin(s) \/ Step(s)) \/ Respond

SpecConc == Init /\ [][NextConc]_vars

\* ------------------------- two requests, with deletes (statement by statement)
\* the requests of SpecDel: creates with or without tracks, updates of the
\* tracks, deletes; a create is admitted while the row ids it will take lie
\* within the ids the requests can name
DelCreateInputs ==
    [title : {"t1"}, label : {NULL},
     genres : ListIn(ConcNames, 0), tracks : TrackListIn(MaxTracks)]

DelUpdateInputs ==
    [title : {UNSET}, label : {UNSET},
     genres : {NoList}, tracks : TrackListIn(MaxTracks)]

BeginDel(s) ==
    /\ last = NoRequest
    /\ sess[s].pc = "idle"
    /\ \/ /\ NextId(RecordIds(db)) <= MaxRecords
          /\ NextId(DOMAIN db.tracks) <= MaxTracks
          /\ \E inp \in DelCreateInputs :
                sess' = [sess EXCEPT ![s] = Enter("create", 0, inp)]
       \/ \E id \in AnyId, inp \in DelUpdateInputs :
                sess' = [sess EXCEPT ![s] = Enter("update", id, inp)]
       \/ \E id \in AnyId :
                sess' = [sess EXCEPT ![s] = Enter("delete", id, NoInput)]
    /\ UNCHANGED <<db, clock, last>>

NextDel == (\E s \in Sessions : BeginDel(s) \/ Step(s)) \/ Respond

SpecDel == Init /\ [][NextDel]_vars

\* ------------------------------------------- requests over a running clock
\* The two clock reads of the code: datetime.utcnow (the column defaults of
\* created_at and updated_at, stored as a Date) gives the UTC day,
\* date.today() (update_record) the day of the server's time zone.  A zone
\* west of UTC enters a new day after UTC does, a zone east of it before.
Zones == {"west", "utc", "east"}

InitClock ==
    /\ db = EmptyDb
    /\ sess = [s \in Sessions |-> IdleSession]
    /\ clock \in { [utc |-> 0, loc |-> 0, zone |-> z] : z \in Zones }
    /\ last = NoRequest

\* the next midnight passes: UTC's or the zone's
Tick ==
    /\ last = NoRequest
    /\ clock.utc < MaxDay /\ clock.loc < MaxDay
    /\ clock' =
         CASE clock.zone = "utc" -> [clock EXCEPT !.utc = @ + 1, !.loc = @ + 1]
           [] clock.zone = "west" ->
                IF clock.utc = clock.loc THEN [clock EXCEPT !.utc = @ + 1]
                ELSE [clock EXCEPT !.loc = @ + 1]
           [] OTHER ->
                IF clock.utc = clock.loc THEN [clock EXCEPT !.loc = @ + 1]
                ELSE [clock EXCEPT !.utc = @ + 1]
    /\ UNCHANGED <<db, sess, last>>

ClockCreateInputs ==
    [title : {"t1"}, label : {NULL, "l1"},
     genres : ListIn(Names, 0), tracks : TrackListIn(0)]

ClockUpdateInputs ==
    [title : {UNSET}, label : {UNSET, NULL, "l1"},
     genres : {NoList}, tracks : {NoList}]

CreateAt ==
    /\ last = NoRequest
    /\ Cardinality(RecordIds(db)) < MaxRecords
    /\ \E inp \in ClockCreateInputs :
          \E o \in Call(db, clock, "create", 0, inp) : Finish(o)
    /\ UNCHANGED <<sess, clock>>

UpdateAt ==
    /\ last = NoRequest
    /\ \E id \in AnyId, inp \in ClockUpdateInputs :
          \E o \in Call(db, clock, "update", id, inp) : Finish(o)
    /\ UNCHANGED <<sess, clock>>

NextClock == CreateAt \/ UpdateAt \/ Tick \/ Respond

SpecClock == InitClock /\ [][NextClock]_vars

\* ------------------------------------------------- search_records, get_records
\* Text is a sequence of characters, so that LIKE can be computed; the NULL
\* of a text column is the one-element sequence NullText.
NullText == <<NULL>>

LowerChar(c) == CASE c = "A" -> "a" [] c = "B" -> "b" [] OTHER -> c

LowerText(t) == [i \in DOMAIN t |-> LowerChar(t[i])]

\* SQL LIKE without an ESCAPE clause: % stands for any run of characters,
\* _ for any one character, every other character for itself
RECURSIVE Like(_, _)
Like(t, pat) ==
    IF pat = <<>> THEN t = <<>>
    ELSE IF pat[1] = "%"
         THEN Like(t, Tail(pat)) \/ (t # <<>> /\ Like(Tail(t), pat))
    ELSE IF t = <<>> THEN FALSE
    ELSE IF pat[1] = "_" THEN Like(Tail(t), Tail(pat))
    ELSE t[1] = pat[1] /\ Like(Tail(t), Tail(pat))

\* column.ilike(pattern): lower(column) LIKE lower(pattern), not true for NULL
ILike(col, pat) == col # NullText /\ Like(LowerText(col), LowerText(pat))

\* the query taken as the pattern, with no wildcard around it
SearchPattern_Bare(q) == q

\* search = f"%{query}%"
SearchPattern(q) == <<"%">> \o q \o <<"%">>

\* the filter of search_records: or_(title, label, genres.any(name))
Hit(d, r, q) ==
    \/ ILike(d.records[r].title, SearchPattern(q))
    \/ ILike(d.records[r].label, SearchPattern(q))
    \/ \E n \in GenresOf(d, r) : ILike(n, SearchPattern(q))

\* a page that starts one row late
Page_Late(rows, skip, limit) ==
    SubSeq(rows, skip + 2, IF skip + limit + 1 < Len(rows) THEN skip + limit + 1 ELSE Len(rows))

\* .offset(skip).limit(limit).all() over rows in rowid order
Page(rows, skip, limit) ==
    SubSeq(rows, skip + 1, IF skip + limit < Len(rows) THEN skip + limit ELSE Len(rows))

\* the count taken after the pagination
SearchRecords_CountPage(d, q, skip, limit) ==
    LET rows == SortedSeq({ r \in RecordIds(d) : Hit(d, r, q) })
    IN [results |-> Page(rows, skip, limit), total |-> Len(Page(rows, skip, limit))]

\* total = records_query.count(); records = records_query.offset().limit().all()
SearchRecords(d, q, skip, limit) ==
    LET rows == SortedSeq({ r \in RecordIds(d) : Hit(d, r, q) })
    IN [results |-> Page(rows, skip, limit), total |-> Len(rows)]

\* db.query(Record).offset(skip).limit(limit).all()
GetRecords(d, skip, limit) == Page(SortedSeq(RecordIds(d)), skip, limit)

\* ------------------------------------------------ searches over a stored state
StoredTitles == { <<"a">>, <<"b", "a">> }

StoredLabels == { NullText, <<"A", "_">> }

StoredGenre == <<"B">>

QueryChars == {"a", "B", "_", "%"}

Queries == SeqsUpTo(QueryChars, MaxQuery)

Offsets == 0..(MaxStored + 1)

Limits == 0..MaxStored

\* the store after creates of n records, each with or without the genre
StoreOf(rows, tagged) ==
    [records |-> rows,
     genres |-> IF tagged = {} THEN EmptyFn ELSE <<StoredGenre>>,
     edges |-> { <<r, 1>> : r \in tagged },
     tracks |-> EmptyFn]

SearchStores ==
    UNION { { StoreOf(rows, tagged) :
                rows \in [1..n -> [title : StoredTitles, label : StoredLabels,
                                   created_at : {0}, updated_at : {0}]],
                tagged \in SUBSET (1..n) } : n \in 0..MaxStored }

InitSearch ==
    /\ db \in SearchStores
    /\ sess = [s \in Sessions |-> IdleSession]
    /\ clock = [utc |-> 0, loc |-> 0]
    /\ last = NoRequest

DoSearch ==
    /\ last = NoRequest
    /\ \E q \in Queries, skip \in Offsets, limit \in Limits :
          last' = [kind |-> "search", rid |-> 0,
                   inp |-> [q |-> q, skip |-> skip, limit |-> limit],
                   ret |-> SearchRecords(db, q, skip, limit), route |-> NoRoute]
    /\ UNCHANGED <<db, sess, clock>>

DoList ==
    /\ last = NoRequest
    /\ \E skip \in Offsets, limit \in Limits :
          last' = [kind |-> "list", rid |-> 0,
                   inp |-> [q |-> <<>>, skip |-> skip, limit |-> limit],
                   ret |-> [results |-> GetRecords(db, skip, limit),
                            total |-> Cardinality(RecordIds(db))],
                   route |-> NoRoute]
    /\ UNCHANGED <<db, sess, clock>>

NextSearch == DoSearch \/ DoList \/ Respond

SpecSearch == InitSearch /\ [][NextSearch]_vars

\* ------------------------------ requests through the schemas (SpecNames)
\* the texts a request may carry as a title and as a genre name
TitleTexts == {"", "t1"}

GenreTexts == {"", " ", "indie", "INDIE"}

\* RecordCreate: `title: str` is required and not nullable, with no
\* constraint on the string; genres is a list of str. RecordUpdate: every
\* field is Optional.
Validates(kind, inp) ==
    kind = "create" => inp.title \notin {NULL, UNSET}

NameCreateInputs ==
    [title : TitleTexts \cup {NULL}, label : {NULL},
     genres : ListIn(GenreTexts, 1), tracks : TrackListIn(0)]

NameUpdateInputs ==
    [title : TitleTexts \cup {UNSET}, label : {UNSET},
     genres : {NoList} \cup ListIn(GenreTexts, 1), tracks : {NoList}]

\* the 422 response of a body that fails its schema: no handler runs
Unprocessable(kind, rid, inp) ==
    /\ last' = [kind |-> kind, rid |-> rid, inp |-> inp,
                ret |-> [tag |-> "raised", id |-> 0, exc |-> "ValidationError", at |-> "schema"],
                route |-> NoRoute]
    /\ db' = db

\* POST /records/
PostRecord ==
    /\ last = NoRequest
    /\ Cardinality(RecordIds(db)) < MaxRecords
    /\ \E inp \in NameCreateInputs :
          IF Validates("create", inp)
          THEN \E o \in Call(db, clock, "create", 0, inp) : Finish(o)
          ELSE Unprocessable("create", 0, inp)
    /\ UNCHANGED <<sess, clock>>

\* PUT /records/{record_id}
PutRecord ==
    /\ last = NoRequest
    /\ \E id \in AnyId, inp \in NameUpdateInputs :
          IF Validates("update", inp)
          THEN \E o \in Call(db, clock, "update", id, inp) : Finish(o)
          ELSE Unprocessable("update", id, inp)
    /\ UNCHANGED <<sess, clock>>

NextNames == PostRecord \/ PutRecord \/ Respond

SpecNames == Init /\ [][NextNames]_vars


\* ------------------------------------ POST /records/ with its lookups
\* what the body may say of a link: nothing, the empty string, a link
UserUrls == {NULL, "", "u"}

\* bodies with no genres and no tracks: the lookups do not depend on them
EnrichInputs ==
    [title : {"t1"}, label : {NULL}, genres : ListIn(Names, 0), tracks : TrackListIn(0),
     album_art_url : UserUrls, discogs_url : {NULL, "u"}, review_url : {NULL, "u"}]

\* one POST from the request to the response
DoPost ==
    /\ last = NoRequest
    /\ Cardinality(RecordIds(db)) < MaxRecords
    /\ \E inp \in EnrichInputs : \E o \in Call(db, clock, "post", 0, inp) : Finish(o)
    /\ UNCHANGED <<sess, clock>>

NextEnrich == DoPost \/ Respond

SpecEnrich == Init /\ [][NextEnrich]_vars

\* two POSTs, await by await and statement by statement
AwaitInputs ==
    [title : {"t1"}, label : {NULL}, genres : ListIn(Names, 0), tracks : TrackListIn(0),
     album_art_url : {NULL, "u"}, discogs_url : {"u"}, review_url : {"u"}]

BeginPost(s) ==
    /\ last = NoRequest
    /\ sess[s].pc = "idle"
    /\ Cardinality(RecordIds(db)) < MaxRecords
    /\ \E inp \in AwaitInputs : sess' = [sess EXCEPT ![s] = Enter("post", 0, inp)]
    /\ UNCHANGED <<db, clock, last>>

NextAwait == (\E s \in Sessions : BeginPost(s) \/ Step(s)) \/ Respond

SpecAwait == Init /\ [][NextAwait]_vars

\* --------------------------------- a Genre deleted through a Session
\* a delete of the genre that takes the records attached to it along
DeleteGenre_Cascade(d, gid) ==
    LET rs == { e[1] : e \in { x \in d.edges : x[2] = gid } }
    IN [d EXCEPT
          !.genres = [g \in GenreIds(d) \ {gid} |-> d.genres[g]],
          !.edges = { e \in @ : e[2] # gid /\ e[1] \notin rs },
          !.tracks = [t \in { u \in DOMAIN d.tracks : d.tracks[u].record_id \notin rs } |->
                        d.tracks[t]],
          !.records = [r \in RecordIds(d) \ rs |-> d.records[r]]]

\* db.delete(genre); db.commit(): the unit of work loads Genre.records and
\* deletes the record_genre rows of the loaded records, then the genres row
DeleteGenre(d, gid) ==
    [d EXCEPT
        !.genres = [g \in GenreIds(d) \ {gid} |-> d.genres[g]],
        !.edges = { e \in @ : ~(e[2] = gid /\ e[1] \in RecordIds(d)) }]

DoDeleteGenre ==
    /\ last = NoRequest
    /\ \E gid \in GenreIds(db) :
          /\ db' = DeleteGenre(db, gid)
          /\ last' = [kind |-> "delete_genre", rid |-> gid, inp |-> NoInput,
                      ret |-> [tag |-> "ok", id |-> gid, exc |-> "", at |-> ""],
                      route |-> NoRoute]
    /\ UNCHANGED <<sess, clock>>

\* creates, while the genre rowids stay within the bound
DoCreateG ==
    /\ NextId(GenreIds(db)) <= MaxGenres
    /\ DoCreate

NextGenre == DoCreateG \/ DoDeleteGenre \/ Respond

SpecGenre == Init /\ [][NextGenre]_vars

\* ------------------------------ two updates of one record (SpecRace)
RaceCreateInputs ==
    [title : {"t1"}, label : {NULL, "l1"},
     genres : ListIn(Names, 0), tracks : TrackListIn(0)]

RaceUpdateInputs ==
    [title : {UNSET, "t2"}, label : {UNSET, NULL, "l1"},
     genres : {NoList}, tracks : {NoList}]

BeginRace(s) ==
    /\ last = NoRequest
    /\ sess[s].pc = "idle"
    /\ \/ /\ Cardinality(RecordIds(db)) < MaxRecords
          /\ \E inp \in RaceCreateInputs :
                sess' = [sess EXCEPT ![s] = Enter("create", 0, inp)]
       \/ \E id \in RecordIds(db), inp \in RaceUpdateInputs :
                sess' = [sess EXCEPT ![s] = Enter("update", id, inp)]
    /\ UNCHANGED <<db, clock, last>>

NextRace == (\E s \in Sessions : BeginRace(s) \/ Step(s)) \/ Respond

SpecRace == Init /\ [][NextRace]_vars

\* ------------------------- one Session for several calls of api.crud
\* the calls a test makes on the Session of its setUp
ReuseCreateInputs ==
    [title : {"t1"}, label : {NULL},
     genres : ListIn(Names, 0), tracks : TrackListIn(MaxTracks)]

ReuseUpdateInputs ==
    [title : {UNSET}, label : {UNSET, "l1"},
     genres : {NoList}, tracks : {NoList} \cup TrackListIn(MaxTracks)]

\* the call starts on the Session as the call before left it
EnterOn(prev, kind, rid, inp) ==
    [Enter(kind, rid, inp) EXCEPT !.hasTxn = prev.hasTxn, !.txn = prev.txn,
                                  !.reuse = TRUE, !.dead = prev.dead]

\* a call on the Session, from entry to return or exception; a Session
\* whose flush failed raises at its first statement
CallOn(kind, rid, inp) ==
    /\ last = NoRequest
    /\ LET w == [db |-> db, s |-> EnterOn(sess["s1"], kind, rid, inp), clock |-> clock]
       IN \E o \in (IF sess["s1"].dead THEN {Raise(w, "PendingRollbackError")} ELSE Run(w)) :
             /\ db' = o.db
             /\ sess' = [sess EXCEPT !["s1"] = o.s]
             /\ last' = Served(o)
    /\ UNCHANGED clock

CreateOn ==
    /\ Cardinality(RecordIds(View([db |-> db, s |-> sess["s1"]]))) < MaxRecords
    /\ \E inp \in ReuseCreateInputs : CallOn("create", 0, inp)

UpdateOn == \E id \in AnyId, inp \in ReuseUpdateInputs : CallOn("update", id, inp)

GetOn == \E id \in AnyId : CallOn("get", id, NoInput)

NextReuse == CreateOn \/ UpdateOn \/ GetOn \/ Respond

SpecReuse == Init /\ [][NextReuse]_vars

\* ================================================================ claims
\* a request was just served: the step that served it, and its target
ServedNow(kind) == last' # NoRequest /\ last'.kind = kind

Existed(d, rid) == rid \in RecordIds(d)

\* an input whose present fields hold values: no explicit null for the title
\* or for a list (create inputs always are)
WellFormed(inp) ==
    inp.title # NULL /\ inp.genres.k # "null" /\ inp.tracks.k # "null"

GetOf(d, rid) == { o.s.ret : o \in Call(d, clock, "get", rid, NoInput) }

\* C1: for every existing record and every update whose input carries a
\* tracks list, update succeeds and the record's stored tracks are then
\* exactly the supplied list, in input order (stated for the updates that
\* carry no genres key, whose outcome the genre list cannot influence).
C1_UpdateReplacesTracks ==
    (/\ last.kind = "update" /\ WellFormed(last.inp)
     /\ last.inp.tracks.k = "list" /\ last.inp.genres.k = "unset"
     /\ last.ret.tag # "none")
        => /\ last.ret.tag = "ok"
           /\ TracksOf(db, last.rid) = last.inp.tracks.v

\* C2: for every valid create input, get(create(input).id) returns the
\* created record: scalars as supplied, the genre set equal to the set of
\* supplied names, the tracks equal to the supplied tracks in input order,
\* each bound to the new identifier.
C2_CreateRoundTrip ==
    last.kind = "create"
        => /\ last.ret.tag = "ok"
           /\ Existed(db, last.ret.id)
           /\ GetOf(db, last.ret.id) = {last.ret}
           /\ db.records[last.ret.id].title = last.inp.title
           /\ db.records[last.ret.id].label = last.inp.label
           /\ GenresOf(db, last.ret.id) = Range(CreateNames(last.inp))
           /\ TracksOf(db, last.ret.id) = CreateTracks(last.inp)

\* C3: a create or an update whose genre list names the same genre more
\* than once succeeds, leaves one Genre row for that name and one
\* membership edge from the record to it (stated for the updates that carry
\* no tracks key, whose outcome the track list cannot influence).
C3_DuplicateNamesCollapse ==
    (/\ last.kind \in {"create", "update"} /\ WellFormed(last.inp)
     /\ last.inp.genres.k = "list"
     /\ HasDup(last.inp.genres.v)
     /\ last.kind = "update" => last.inp.tracks.k = "unset"
     /\ last.ret.tag # "none")
        => /\ last.ret.tag = "ok"
           /\ \A n \in Range(last.inp.genres.v) :
                 /\ Cardinality({g \in GenreIds(db) : db.genres[g] = n}) = 1
                 /\ <<last.ret.id, GenreByName(db, n)>> \in db.edges

\* C4: in every reachable state, under every interleaving of creates and
\* updates, no two Genre rows share a name (in the committed store and in
\* every open transaction).
C4_GenreNamesUnique ==
    \A d \in {db} \cup { sess[s].txn : s \in Sessions } :
        \A g, h \in GenreIds(d) : d.genres[g] = d.genres[h] => g = h

\* two requests raced on the insert of one new name and the store kept one row
C4_Witness ==
    /\ last.ret.tag = "raised"
    /\ last.ret.exc = "IntegrityError"
    /\ last.ret.at \in {"c_ins", "u_ins"}
    /\ Cardinality({g \in GenreIds(db) : db.genres[g] = "Rock"}) = 1

\* C5: when two creates or updates that name the same not-yet-existing genre
\* run concurrently both complete: the conflict on the genre name is never
\* surfaced to a caller.
C5_ConflictNeverSurfaced ==
    last.kind \in {"create", "update"}
        => ~(/\ last.ret.tag = "raised"
             /\ last.ret.exc = "IntegrityError"
             /\ last.ret.at \in {"c_ins", "u_ins"})

\* C6: update of an existing record with a genres list L leaves the record's
\* genre set equal to the set of names in L, and every Genre row that
\* existed before still exists.
C6_UpdateReplacesGenres ==
    [][(/\ ServedNow("update") /\ WellFormed(last'.inp)
        /\ last'.inp.genres.k = "list" /\ Existed(db, last'.rid))
        => /\ GenresOf(db', last'.rid) = Range(last'.inp.genres.v)
           /\ \A g \in GenreIds(db) : g \in GenreIds(db') /\ db'.genres[g] = db.genres[g]
      ]_vars

\* C7: update changes only the fields present in its input: an absent
\* scalar, an absent genres key and an absent tracks key leave the value
\* unchanged, an explicit empty genres or tracks list clears it, and the
\* identifier and created_at never change.
C7_UpdateFrame ==
    [][(ServedNow("update") /\ WellFormed(last'.inp) /\ Existed(db, last'.rid))
        => LET id == last'.rid
               inp == last'.inp
           IN /\ Existed(db', id)
              /\ RecordIds(db') = RecordIds(db)
              /\ db'.records[id].created_at = db.records[id].created_at
              /\ inp.title = UNSET => db'.records[id].title = db.records[id].title
              /\ inp.label = UNSET => db'.records[id].label = db.records[id].label
              /\ inp.genres.k = "unset" => GenresOf(db', id) = GenresOf(db, id)
              /\ inp.tracks.k = "unset" => TracksOf(db', id) = TracksOf(db, id)
              /\ (inp.genres.k = "list" /\ inp.genres.v = <<>>) => GenresOf(db', id) = {}
              /\ (inp.tracks.k = "list" /\ inp.tracks.v = <<>>) => TracksOf(db', id) = <<>>
      ]_vars

\* C8: delete of an existing record removes the record, its tracks and its
\* membership edges and nothing else: every Genre row, every other record,
\* every other record's tracks and edges stay as they were.
C8_DeleteCascadesOnly ==
    [][(ServedNow("delete") /\ Existed(db, last'.rid))
        => LET id == last'.rid
           IN /\ db'.records = [r \in RecordIds(db) \ {id} |-> db.records[r]]
              /\ db'.tracks = [t \in DOMAIN db.tracks \ TrackIdsOf(db, id) |-> db.tracks[t]]
              /\ db'.edges = { e \in db.edges : e[1] # id }
              /\ db'.genres = db.genres
      ]_vars

\* record 1, whose tracks had the rowids 1 and 2, was deleted; record 2
\* still has its tracks and its edge to a genre
C8_Witness ==
    /\ last.kind = "delete" /\ last.rid = 1 /\ last.ret.tag = "true"
    /\ RecordIds(db) = {2}
    /\ TrackIdsOf(db, 2) = {3, 4}
    /\ GenresOf(db, 2) = {"Rock"}
    /\ Range(db.genres) = {"Rock", "Jazz"}

\* C9: for every existing record id, delete(id) returns true, a following
\* get(id) returns none and a second delete(id) returns false and changes
\* nothing.
C9_DeleteThenMiss ==
    [][(ServedNow("delete") /\ Existed(db, last'.rid))
        => /\ last'.ret.tag = "true"
           /\ \A o \in Call(db', clock', "get", last'.rid, NoInput) : o.s.ret.tag = "none"
           /\ \A o \in Call(db', clock', "delete", last'.rid, NoInput) :
                 o.s.ret.tag = "false" /\ o.db = db'
      ]_vars

C9_Witness ==
    /\ last.kind = "delete" /\ last.ret.tag = "true"
    /\ ~Existed(db, last.rid)
    /\ db.records # EmptyFn

\* C10: for an id with no stored record update returns none and delete
\* returns false, neither raises, and the store is unchanged: no Genre row
\* and no Track row is created.
C10_MissingIdNoOp ==
    [][(last' # NoRequest /\ last'.kind \in {"update", "delete"} /\ ~Existed(db, last'.rid))
        => /\ db' = db
           /\ last'.ret.tag = IF last'.kind = "update" THEN "none" ELSE "false"
      ]_vars

\* an update of a missing id that names a genre not yet stored and carries tracks
C10_Witness ==
    /\ last.kind = "update" /\ last.ret.tag = "none"
    /\ last.inp.genres.v # <<>>
    /\ \A n \in Range(last.inp.genres.v) : GenreByName(db, n) = 0
    /\ last.inp.tracks.v # <<>>

\* C11: an update that fails part-way, after it replaced the genre set or
\* deleted the tracks, leaves the stored record, its edges, its tracks and
\* the Genre table exactly as they were before the call.
C11_UpdateAllOrNothing ==
    [][(ServedNow("update") /\ last'.ret.tag = "raised") => db' = db]_vars

\* an update that had deleted the tracks and replaced the genre set raised,
\* and the record still has its tracks and its old genre set
C11_Witness ==
    /\ last.kind = "update" /\ last.ret.tag = "raised" /\ last.ret.at = "u_trk"
    /\ TracksOf(db, last.rid) # <<>>
    /\ last.inp.genres.k = "list"
    /\ GenresOf(db, last.rid) # Range(last.inp.genres.v)

\* C12: a create that fails after it started writing leaves none of its
\* writes visible: no Record, Track, edge or Genre row of this call.
C12_CreateAllOrNothing ==
    [][(ServedNow("create") /\ last'.ret.tag = "raised") => db' = db]_vars

\* a create raised after it had inserted a Genre row, and no row of that
\* name is stored
C12_Witness ==
    /\ last.kind = "create" /\ last.ret.tag = "raised" /\ last.ret.at = "c_rec"
    /\ \E n \in Range(last.inp.genres.v) : GenreByName(db, n) = 0

\* C13: in every reachable state, after any sequence of creates and updates,
\* every record has updated_at >= created_at.
C13_UpdatedNotBeforeCreated ==
    \A r \in RecordIds(db) : db.records[r].updated_at >= db.records[r].created_at

\* C14: in every reachable state, under any interleaving of create, update
\* and delete, every Track row's record_id is the id of an existing Record.
C14_TracksHaveRecord ==
    \A t \in DOMAIN db.tracks : db.tracks[t].record_id \in RecordIds(db)

\* q occurs in t as a literal substring
Contains(t, q) ==
    \E i \in 0..(Len(t) - Len(q)) : SubSeq(t, i + 1, i + Len(q)) = q

LiteralHit(d, r, q) ==
    \/ Contains(LowerText(d.records[r].title), LowerText(q))
    \/ d.records[r].label # NullText /\ Contains(LowerText(d.records[r].label), LowerText(q))
    \/ \E n \in GenresOf(d, r) : Contains(LowerText(n), LowerText(q))

\* C15: for every stored state and every query q (also one that contains %
\* or _), search returns a record if and only if q, compared
\* case-insensitively, is a literal substring of its title, its label or the
\* name of one of its genres.
C15_SearchIsLiteralSubstring ==
    (last.kind = "search" /\ last.inp.skip = 0 /\ last.inp.limit >= Cardinality(RecordIds(db)))
        => Range(last.ret.results) = { r \in RecordIds(db) : LiteralHit(db, r, last.inp.q) }

\* C16: for every query, offset >= 0 and limit >= 0, search's total is the
\* number of all matching records, whatever the offset and the limit, and
\* results is the slice [offset, offset+limit) of the matching records, so
\* len(results) = min(limit, max(0, total - offset)); with no match it is
\* total 0 and no results.
C16_TotalAndSlice ==
    last.kind = "search"
        => LET q == last.inp.q
               skip == last.inp.skip
               limit == last.inp.limit
               matching == { r \in RecordIds(db) : Hit(db, r, q) }
               all == SearchRecords(db, q, 0, Cardinality(RecordIds(db))).results
               rest == IF last.ret.total - skip > 0 THEN last.ret.total - skip ELSE 0
           IN /\ last.ret.total = Cardinality(matching)
              /\ Range(all) = matching /\ Len(all) = Cardinality(matching)
              /\ last.ret.results =
                    [k \in 1..(IF limit < rest THEN limit ELSE rest) |-> all[skip + k]]
              /\ Len(last.ret.results) = IF limit < rest THEN limit ELSE rest
              /\ matching = {} => (last.ret.total = 0 /\ last.ret.results = <<>>)

\* a page that starts after the first match and ends before the last
C16_Witness ==
    /\ last.kind = "search"
    /\ last.inp.skip >= 1
    /\ Len(last.ret.results) >= 1
    /\ last.ret.total > Len(last.ret.results)

C18_EmptyTitleRejected ==
    [][((ServedNow("create") \/ (ServedNow("update") /\ Existed(db, last'.rid)))
            /\ last'.inp.title = "")
        => (last'.ret.tag = "raised" /\ last'.ret.exc = "ValidationError" /\ db' = db)]_vars

Blank(name) == name \in {"", " "}

\* C19: a create or an update whose genre list holds an empty or blank name
\* fails with a validation error, and in every reachable state every Genre
\* name is non-empty and non-blank.
C19_NoBlankGenre ==
    [][/\ ((ServedNow("create") \/ (ServedNow("update") /\ Existed(db, last'.rid)))
              /\ \E i \in DOMAIN last'.inp.genres.v : Blank(last'.inp.genres.v[i]))
           => (last'.ret.tag = "raised" /\ last'.ret.exc = "ValidationError")
       /\ \A g \in GenreIds(db') : ~Blank(db'.genres[g])]_vars

LowerName(name) == IF name = "INDIE" THEN "indie" ELSE name

\* C20: genre names that differ only in letter case are one Genre: at most
\* one stored Genre has a name equal to "indie" case-insensitively.
C20_CaseVariantsOneGenre ==
    Cardinality({ g \in GenreIds(db) : LowerName(db.genres[g]) = "indie" }) <= 1

\* the link the lookups gave for a field
Looked(r, f) ==
    CASE f = "album_art_url" -> r.info[1]
      [] f = "discogs_url" -> r.info[2]
      [] OTHER -> r.review

\* C21: the create endpoint calls the lookups if and only if at least one of
\* album_art_url, discogs_url, review_url is missing from the body; a field
\* the body supplied is never replaced, and a missing field takes the value
\* the lookups returned and stays absent when they returned none.
C21_EnrichOnlyMissing ==
    [][ServedNow("post")
        => LET r == last'.route
           IN /\ ("info" \in Range(r.calls)) <=> (\E f \in UrlFields : r.orig[f] = NULL)
              /\ \A f \in UrlFields :
                    /\ r.orig[f] # NULL => last'.inp[f] = r.orig[f]
                    /\ r.orig[f] = NULL =>
                          last'.inp[f] = IF Falsy(Looked(r, f)) THEN NULL ELSE Looked(r, f)
                    /\ last'.ret.tag = "ok" =>
                          db'.records[last'.ret.id][f] = last'.inp[f]]_vars

\* C22: whatever way a provider fails (no credentials, error status,
\* exception in the call or in decoding the reply) the lookup returns absent
\* values and raises nothing; when both providers fail all three values are
\* absent and the create endpoint stores the record with exactly the fields
\* of the body.
C22_ProviderFailuresSwallowed ==
    [][ServedNow("post")
        => LET r == last'.route
           IN /\ last'.ret.tag = "raised" => last'.ret.at \notin {"r_info", "r_review"}
              /\ (Len(r.out) >= 1 /\ r.out[1] \in ProviderFailures) => r.info = <<NULL, NULL>>
              /\ (Len(r.out) >= 2 /\ r.out[2] \in ProviderFailures) => r.review = NULL
              /\ (r.calls # <<"crud">> /\ \A i \in DOMAIN r.out : r.out[i] \in ProviderFailures)
                    => /\ Len(r.out) = 2
                       /\ last'.ret.tag = "ok"
                       /\ last'.ret.id \in RecordIds(db') \ RecordIds(db)
                       /\ \A f \in ScalarKeys(r.orig) :
                             db'.records[last'.ret.id][f] = r.orig[f]]_vars

\* both providers failed, in two different ways, and the record is stored
\* with its missing cover link still missing
C22_Witness ==
    /\ last.kind = "post"
    /\ last.route.out = <<"status", "decode">>
    /\ last.ret.tag = "ok"
    /\ last.route.orig.album_art_url = NULL
    /\ db.records[last.ret.id].album_art_url = NULL
    /\ db.records[last.ret.id].discogs_url = "u"

RoutePcs == {"r_check", "r_info", "r_review"}

\* C23: in the create endpoint the album-info lookup ends before the review
\* lookup starts and both end before create's first storage access; while a
\* lookup is awaited the request holds no transaction and has written
\* nothing, so the requests that run meanwhile see none of its writes.
C23_LookupsBeforeStorage ==
    [][\A s \in Sessions :
          LET x == sess'[s]
          IN /\ x.pc = "r_info" => x.route.calls = <<"info">>
             /\ x.pc = "r_review" => x.route.calls = <<"info", "review">>
             /\ (x.kind = "post" /\ x.pc \notin RoutePcs \cup {"idle"})
                   => x.route.calls \in {<<"crud">>, <<"info", "review", "crud">>}
             /\ x.pc \in RoutePcs => (~x.hasTxn /\ x.txn = EmptyDb)
             /\ (sess[s].pc \in RoutePcs /\ x # sess[s]) => db' = db]_vars

\* one request awaits its review lookup while the other is in the middle of
\* its writes
C23_Witness ==
    /\ sess["s1"].pc = "r_review"
    /\ sess["s2"].hasTxn
    /\ sess["s2"].route.calls = <<"info", "review", "crud">>

\* the status of the response: HTTPException(404) for None and False, 500
\* for an exception that leaves the handler, 200 otherwise
Status(ret) ==
    CASE ret.tag \in {"none", "false"} -> 404
      [] ret.tag = "raised" -> 500
      [] OTHER -> 200

\* C24: GET, PUT and DELETE on /records/{id} answer 404 and change nothing
\* when no record has the id, and answer 200 when a record has it.
C24_ItemStatus ==
    [][(last' # NoRequest /\ last'.kind \in {"get", "update", "delete"} /\ WellFormed(last'.inp))
        => IF Existed(db, last'.rid)
           THEN Status(last'.ret) = 200
           ELSE Status(last'.ret) = 404 /\ db' = db]_vars

\* C25: no create, update or delete removes a Genre row: a stored genre is
\* stored, under the same name, in every later state, also when no record
\* refers to it any more.
C25_GenresNeverRemoved ==
    [][\A g \in GenreIds(db) : g \in GenreIds(db') /\ db'.genres[g] = db.genres[g]]_vars

\* the last record was deleted and the genre it had is still stored, with no
\* edge left
C25_Witness ==
    /\ last.kind = "delete" /\ last.ret.tag = "true"
    /\ RecordIds(db) = {}
    /\ db.edges = {}
    /\ Range(db.genres) = {"Rock", "Jazz"}

\* C26: deleting a Genre row deletes no Record and no Track: the records
\* that had the genre are stored as before, with their tracks and their
\* other edges, and only the edges to the deleted genre are gone.
C26_GenreDeleteKeepsRecords ==
    [][(last' # NoRequest /\ last'.kind = "delete_genre")
        => /\ db'.records = db.records
           /\ db'.tracks = db.tracks
           /\ db'.edges = { e \in db.edges : e[2] # last'.rid }
           /\ db'.genres = [g \in GenreIds(db) \ {last'.rid} |-> db.genres[g]]]_vars

\* record 1 was created with two genres and two tracks; genre 1 was deleted
\* and the record keeps its tracks and its edge to genre 2
C26_Witness ==
    /\ last.kind = "delete_genre" /\ last.rid = 1
    /\ RecordIds(db) = {1}
    /\ TrackIdsOf(db, 1) = {1, 2}
    /\ GenreIds(db) = {2}
    /\ db.edges = {<<1, 2>>}

\* C27: when two updates of one record run concurrently and both commit, a
\* field both set holds the value of the update that committed last, and a
\* field only one set holds that update's value: at each commit of an update
\* the fields it set hold its values and the other fields are as they were.
C27_LastCommitWins ==
    [][\A s \in Sessions :
          (/\ sess[s].kind = "update" /\ sess[s].pc = "u_commit"
           /\ sess'[s].pc = "refresh")
             => \A f \in {"title", "label"} :
                   db'.records[sess[s].rid][f] =
                       IF sess[s].inp[f] # UNSET THEN sess[s].inp[f]
                       ELSE db.records[sess[s].rid][f]]_vars

\* C28: after any sequence of creates, updates and deletes every membership
\* edge refers to a stored Record and a stored Genre, and a record has one
\* edge per genre.  (record_genre has the primary key (record_id,
\* genre_id); the model keeps the edges as a set and a second insert of a
\* pair raises IntegrityError in FlushEdges.)
C28_EdgesWellFormed ==
    /\ \A e \in db.edges : e[1] \in RecordIds(db) /\ e[2] \in GenreIds(db)
    /\ \A r \in RecordIds(db) :
          Cardinality({ e \in db.edges : e[1] = r }) = Cardinality(GenreIdsOf(db, r))

\* an update replaced the genre set of the only record: its one edge goes to
\* Jazz, and Rock is stored without an edge
C28_Witness ==
    /\ last.kind = "update" /\ last.ret.tag = "ok"
    /\ last.inp.genres.v = <<"Jazz">>
    /\ GenresOf(db, last.rid) = {"Jazz"}
    /\ Range(db.genres) = {"Rock", "Jazz"}
    /\ Cardinality(db.edges) = 1

\* C29: when one Session serves several calls, the writes a call made before
\* it raised are never committed by a later call that succeeds on that
\* Session: a call that succeeds changes the store as it would on a Session
\* of its own.
C29_NoLateCommit ==
    [][(last' # NoRequest /\ sess'["s1"].reuse /\ last'.ret.tag \in {"ok", "true"})
        => \E o \in Call(db, clock, last'.kind, last'.rid, last'.inp) : o.db = db']_vars

\* C30: search with the empty query matches every stored record: total is
\* the number of stored records, also for records without label and without
\* genre, and the results are the page of all records.
C30_EmptyQueryMatchesAll ==
    (last.kind = "search" /\ last.inp.q = <<>>)
        => /\ last.ret.total = Cardinality(RecordIds(db))
           /\ last.ret.results = GetRecords(db, last.inp.skip, last.inp.limit)

\* two stored records, one of them with no label and no genre, both counted
\* and both returned
C30_Witness ==
    /\ last.kind = "search" /\ last.inp.q = <<>>
    /\ last.ret.total = 2 /\ last.ret.results = <<1, 2>>
    /\ \E r \in RecordIds(db) : db.records[r].label = NullText /\ GenresOf(db, r) = {}

====
